---- MODULE Spec2Model ----
(***************************************************************************)
(* Route planner of the OASIS community map: class RoutePlanner of         *)
(* src/public/js/routePlannerUI.js over the system catalog held by class   *)
(* SceneManager of src/public/js/sceneManager.js.                          *)
(*                                                                         *)
(* Representation.                                                         *)
(*  - A JS Map is a sequence of entries in insertion order (Map iteration  *)
(*    order is insertion order, and the search depends on it).             *)
(*  - A system is [name, coords]; coords is <<x, y, z>> or NoCoords (the   *)
(*    property is undefined).                                              *)
(*  - Coordinates are drawn from a pool in which every pairwise distance   *)
(*    is an integer, so Math.sqrt and the float sums of the code are exact *)
(*    and calculateDistance is the exact integer square root.              *)
(*  - null is NullSystem for a system, NullRoute for a route; a thrown     *)
(*    TypeError is the route value Threw.                                  *)
(*  - Names are strings of capital letters, digits and blanks; toLowerCase *)
(*    and trim work on them character by character.                        *)
(*  - Spec runs each call of the planner as one step. SearchSpec runs one  *)
(*    findRoute call with every pass through its loop as a step, so that a *)
(*    search of maxIterations passes can be followed.                      *)
(***************************************************************************)
EXTENDS Integers, Sequences, FiniteSets, TLC

\* ------------------------------------------------------------------ bounds
\* systems in an exhaustively enumerated catalog
MaxSystems == 3
\* systems in the collinear chain catalog (a direct route of more than 10 jumps)
ChainLen == 12
\* anchor descriptors returned by the anchor source
MaxAnchors == 2
\* systems in the long chain catalog (a search that outlasts maxIterations)
LongChainLen == 1001
\* The significant bits of a number of the model: sums below 2^Mantissa are exact.
Mantissa == 14

\* ------------------------------------------------------- program constants
maxIterations == 1000
fuelPerJump == 2
DefaultJumpRange == 50
DirectJumpThreshold == 10
Infinity == 1000000

\* --------------------------------------------------------------- names
\* The stored name of the i-th system of a catalog, and a name in no catalog.
SystemName(i) == "S" \o ToString(i)
UnknownName == "X9"

\* String.prototype.toLowerCase, character by character.
UpperCase == <<"A", "B", "C", "D", "E", "F", "G", "H", "I", "J", "K", "L", "M",
               "N", "O", "P", "Q", "R", "S", "T", "U", "V", "W", "X", "Y", "Z">>
LowerCase == <<"a", "b", "c", "d", "e", "f", "g", "h", "i", "j", "k", "l", "m",
               "n", "o", "p", "q", "r", "s", "t", "u", "v", "w", "x", "y", "z">>
LowerChar(c) ==
    IF \E i \in 1..Len(UpperCase) : UpperCase[i] = c
    THEN LowerCase[CHOOSE i \in 1..Len(UpperCase) : UpperCase[i] = c]
    ELSE c

RECURSIVE toLowerCase(_)
toLowerCase(name) ==
    IF name = "" THEN ""
    ELSE LowerChar(SubSeq(name, 1, 1)) \o toLowerCase(Tail(name))

\* String.prototype.trim: the blanks at both ends are dropped.
RECURSIVE trimStart(_)
trimStart(name) ==
    IF name # "" /\ SubSeq(name, 1, 1) = " " THEN trimStart(Tail(name)) ELSE name

RECURSIVE trimEnd(_)
trimEnd(name) ==
    IF name # "" /\ SubSeq(name, Len(name), Len(name)) = " "
    THEN trimEnd(SubSeq(name, 1, Len(name) - 1))
    ELSE name

trim(name) == trimEnd(trimStart(name))

\* name.toLowerCase().trim()
normalizeSystemName(name) == trim(toLowerCase(name))

\* --------------------------------------------------------------- systems
NoCoords == <<>>
NullSystem == [name |-> "", coords |-> NoCoords]
IsNull(system) == system = NullSystem
HasCoords(system) == system.coords # NoCoords

\* Map helpers: entries are records with a key field k and a value field v.
MapHas(m, key) == \E i \in 1..Len(m) : m[i].k = key
MapGet(m, key) == m[CHOOSE i \in 1..Len(m) : m[i].k = key].v
MapSet(m, key, val) ==
    IF MapHas(m, key)
    THEN [i \in 1..Len(m) |-> IF m[i].k = key THEN [k |-> key, v |-> val] ELSE m[i]]
    ELSE Append(m, [k |-> key, v |-> val])
MapKeys(m) == {m[i].k : i \in 1..Len(m)}

\* ------------------------------------------------------------------ state
VARIABLES
    sceneSystems,    \* SceneManager.allSystems: Map name -> system
    systemNameMap,   \* SceneManager.systemNameMap: Map normalized name -> stored name
    allSystems,      \* RoutePlanner.allSystems: Map name -> system
    anchors,         \* RoutePlanner.anchors: Map anchor name -> system
    maxJumpRange,    \* RoutePlanner.maxJumpRange
    currentRoute,    \* RoutePlanner.currentRoute
    request,         \* the arguments of the call being made on the planner
    call,            \* the last call made on the planner, with what it returned
    search,          \* the findRoute call in progress: its position and locals
    ui               \* RoutePlannerUI: its currentRoute, its calculateRoute calls waiting

vars == <<sceneSystems, systemNameMap, allSystems, anchors, maxJumpRange,
          currentRoute, request, call, search, ui>>

\* ------------------------------------------------------------ SceneManager
Lookup(originalName) ==
    IF MapHas(sceneSystems, originalName) THEN MapGet(sceneSystems, originalName)
    ELSE NullSystem

Normalized(normalized) ==
    IF MapHas(systemNameMap, normalized) THEN Lookup(MapGet(systemNameMap, normalized))
    ELSE NullSystem

getSystem(systemName) == Normalized(normalizeSystemName(systemName))

\* A Map filled by set(keys[i], vals[i]) for i = 1, 2, ...: a key stands where it
\* was first set and holds the value it was last set to.
FirstSet(keys) ==
    SelectSeq([i \in 1..Len(keys) |-> i],
              LAMBDA i : \A j \in 1..(i - 1) : keys[j] # keys[i])
LastSet(keys, key) ==
    CHOOSE i \in 1..Len(keys) :
        keys[i] = key /\ \A j \in (i + 1)..Len(keys) : keys[j] # key
MapAt(keys, vals, first) ==
    [n \in 1..Len(first) |->
        [k |-> keys[first[n]], v |-> vals[LastSet(keys, keys[first[n]])]]]
MapOf(keys, vals) ==
    CHOOSE m \in {MapAt(keys, vals, first) : first \in {FirstSet(keys)}} : TRUE

\* vizData.systems.forEach(system => {
\*     this.allSystems.set(system.name, system);
\*     this.systemNameMap.set(this.normalizeSystemName(system.name), system.name) })
loadAllSystems(systems) ==
    [allSystems |-> MapOf([i \in 1..Len(systems) |-> systems[i].name], systems),
     systemNameMap |->
        MapOf([i \in 1..Len(systems) |-> normalizeSystemName(systems[i].name)],
              [i \in 1..Len(systems) |-> systems[i].name])]

\* ------------------------------------------------------------ RoutePlanner
Abs(n) == IF n < 0 THEN -n ELSE n

\* Reading .x of an undefined coords throws a TypeError.
DistanceThrows(system1, system2) == ~HasCoords(system1) \/ ~HasCoords(system2)

Max(a, b) == IF a < b THEN b ELSE a

\* The spacing of the numbers around n that have Mantissa significant bits.
Ulp(n) ==
    CHOOSE u \in {2^e : e \in 0..(30 - Mantissa)} :
        /\ n < u * 2^Mantissa
        /\ u = 1 \/ n >= (u \div 2) * 2^Mantissa

\* The number of Mantissa significant bits nearest to n, the even one of two
\* that are equally near: the rounding of an arithmetic result to a double,
\* with Mantissa bits in place of 53.
Round(n) ==
    IF n < 2^Mantissa THEN n
    ELSE IF 2 * (n % Ulp(n)) < Ulp(n) THEN (n \div Ulp(n)) * Ulp(n)
    ELSE IF 2 * (n % Ulp(n)) > Ulp(n) THEN ((n \div Ulp(n)) + 1) * Ulp(n)
    ELSE ((n \div Ulp(n)) + ((n \div Ulp(n)) % 2)) * Ulp(n)

\* a + b on two distances: the sum, rounded.
Plus(a, b) == Round(a + b)

\* Math.sqrt(n), for n a perfect square whose root lies in lo..hi.
Sqrt(n, lo, hi) == CHOOSE r \in lo..hi : r * r = n

\* A slip: the differences are added up as they are, so the result has a sign.
calculateDisplacement(system1, system2) ==
    (system1.coords[1] - system2.coords[1]) + (system1.coords[2] - system2.coords[2])
        + (system1.coords[3] - system2.coords[3])

\* The root lies between the largest of |dx|, |dy|, |dz| and their sum, and is
\* an integer for the coordinates of the model.
calculateDistance(system1, system2) ==
    LET dx == system1.coords[1] - system2.coords[1]
        dy == system1.coords[2] - system2.coords[2]
        dz == system1.coords[3] - system2.coords[3]
    IN  Sqrt(dx * dx + dy * dy + dz * dz,
             Max(Abs(dx), Max(Abs(dy), Abs(dz))),
             Abs(dx) + Abs(dy) + Abs(dz))

\* Array.prototype.sort((a, b) => a.distance - b.distance) is stable.
RECURSIVE InsertByDistance(_, _)
InsertByDistance(sorted, item) ==
    IF sorted = <<>> THEN <<item>>
    ELSE IF item.distance < Head(sorted).distance THEN <<item>> \o sorted
    ELSE <<Head(sorted)>> \o InsertByDistance(Tail(sorted), item)

RECURSIVE SortByDistance(_)
SortByDistance(items) ==
    IF items = <<>> THEN <<>>
    ELSE InsertByDistance(SortByDistance(SubSeq(items, 1, Len(items) - 1)),
                          items[Len(items)])

\* A slip: a system exactly at the range is left out.
InRangeStrict(distance, range) == distance < range

\* if (distance <= range) systemsInRange.push({ system, distance })
InRange(distance, range) == distance <= range

\* if (name === centerSystem.name) continue;
Others(entries, centerSystem) ==
    SelectSeq(entries, LAMBDA e : e.k # centerSystem.name)

\* systemsInRange.push({ system, distance })
Measured(inRange, centerSystem) ==
    [i \in 1..Len(inRange) |->
        [system |-> inRange[i].v,
         distance |-> calculateDistance(centerSystem, inRange[i].v)]]

\* for (const [name, system] of this.allSystems) {
\*     const distance = this.calculateDistance(centerSystem, system); ... }
\* The loop throws at the first system it measures that has no coordinates.
ScanSystems(others, centerSystem, range) ==
    IF SelectSeq(others, LAMBDA e : DistanceThrows(centerSystem, e.v)) # <<>>
    THEN [threw |-> TRUE, list |-> <<>>]
    ELSE [threw |-> FALSE,
          list |-> Measured(SelectSeq(others,
                                      LAMBDA e : InRange(calculateDistance(centerSystem,
                                                                           e.v),
                                                         range)),
                            centerSystem)]

SortScan(scan) == [threw |-> scan.threw, list |-> SortByDistance(scan.list)]

findSystemsInRange(centerSystem, range) ==
    SortScan(ScanSystems(Others(allSystems, centerSystem), centerSystem, range))

\* A route value: the object findRoute returns, null, or a thrown exception.
\* pathNames is <<>> and waypoint is "" where the object has no such property.
RouteValue(route, totalDistance, jumps, fuelRequired, pathNames, waypoint) ==
    [kind |-> "route", route |-> route, totalDistance |-> totalDistance,
     jumps |-> jumps, fuelRequired |-> fuelRequired, pathNames |-> pathNames,
     waypoint |-> waypoint]
NullRoute ==
    [kind |-> "null", route |-> <<>>, totalDistance |-> 0, jumps |-> 0,
     fuelRequired |-> 0, pathNames |-> <<>>, waypoint |-> ""]
Threw ==
    [kind |-> "throw", route |-> <<>>, totalDistance |-> 0, jumps |-> 0,
     fuelRequired |-> 0, pathNames |-> <<>>, waypoint |-> ""]

\* What one findRoute call did: the value it returned (or Threw), the number of
\* iterations of the search loop it ran, and the console line it ended with.
Run(value, iterations, log) ==
    [value |-> value, iterations |-> iterations, log |-> log]

\* map.get(key) || dflt : undefined and 0 are both falsy.
GetOr(map, key, dflt) ==
    IF key \in DOMAIN map /\ map[key] # 0 THEN map[key] ELSE dflt

Put(map, key, val) ==
    [x \in DOMAIN map \cup {key} |-> IF x = key THEN val ELSE map[x]]

SeqHas(seq, x) == \E i \in 1..Len(seq) : seq[i] = x
SeqDelete(seq, x) == SelectSeq(seq, LAMBDA y : y # x)

\* A slip: the comparison of the scan is turned round, so it takes the vertex of
\* highest fScore.
HighestFScore(openSet, fScore, current, lowestFScore) ==
    IF openSet = <<>> THEN current
    ELSE CHOOSE name \in {openSet[i] : i \in 1..Len(openSet)} :
            \A i \in 1..Len(openSet) :
                GetOr(fScore, openSet[i], Infinity) <= GetOr(fScore, name, Infinity)

\* for (const systemName of openSet) { ... if (score < lowestFScore) ... }
RECURSIVE LowestFScore(_, _, _, _)
LowestFScore(openSet, fScore, current, lowestFScore) ==
    IF openSet = <<>> THEN current
    ELSE IF GetOr(fScore, Head(openSet), Infinity) < lowestFScore
    THEN LowestFScore(Tail(openSet), fScore, Head(openSet),
                      GetOr(fScore, Head(openSet), Infinity))
    ELSE LowestFScore(Tail(openSet), fScore, current, lowestFScore)

\* if (!openSet.has(neighbor.name)) openSet.add(neighbor.name);
\* else if (tentativeGScore >= (gScore.get(neighbor.name) || Infinity)) continue;
\* cameFrom.set(...); gScore.set(...); fScore.set(...)
Improve(neighbor, tentativeGScore, inOpen, current, endSystem, st) ==
    IF inOpen /\ tentativeGScore >= GetOr(st.gScore, neighbor.name, Infinity)
    THEN st
    ELSE [st EXCEPT
            !.openSet = IF inOpen THEN @ ELSE Append(@, neighbor.name),
            !.cameFrom = MapSet(@, neighbor.name, current),
            !.gScore = Put(@, neighbor.name, tentativeGScore),
            !.fScore = Put(@, neighbor.name,
                           Plus(tentativeGScore,
                                calculateDistance(neighbor, endSystem)))]

\* if (closedSet.has(neighbor.name)) continue;
\* const tentativeGScore = (gScore.get(current) || 0) + distance;
Relax(neighbor, distance, current, endSystem, st) ==
    IF neighbor.name \in st.closedSet THEN st
    ELSE Improve(neighbor, Plus(GetOr(st.gScore, current, 0), distance),
                 SeqHas(st.openSet, neighbor.name), current, endSystem, st)

\* for (const { system: neighbor, distance } of neighbors) { ... }
RECURSIVE RelaxNeighbors(_, _, _, _)
RelaxNeighbors(neighbors, current, endSystem, st) ==
    IF neighbors = <<>> THEN st
    ELSE RelaxNeighbors(Tail(neighbors), current, endSystem,
                        Relax(Head(neighbors).system, Head(neighbors).distance,
                              current, endSystem, st))

\* if (prevSystem && currSystem) totalDistance += calculateDistance(prevSystem, currSystem)
\* Every name on the walk was resolved with coordinates during the search.
EdgeLength(prevSystem, currSystem) ==
    IF ~IsNull(prevSystem) /\ ~IsNull(currSystem)
    THEN calculateDistance(prevSystem, currSystem)
    ELSE 0

\* while (cameFrom.has(current)) { path.unshift(previous); ...; current = previous }
RECURSIVE WalkBack(_, _, _, _)
WalkBack(cameFrom, current, path, totalDistance) ==
    IF ~MapHas(cameFrom, current)
    THEN [path |-> path, totalDistance |-> totalDistance]
    ELSE WalkBack(cameFrom, MapGet(cameFrom, current),
                  <<MapGet(cameFrom, current)>> \o path,
                  Plus(totalDistance,
                       EdgeLength(getSystem(MapGet(cameFrom, current)),
                                  getSystem(current))))

\* path.map(systemName => this.sceneManager.getSystem(systemName)).filter(s => s)
ResolvePath(path) ==
    SelectSeq([i \in 1..Len(path) |-> getSystem(path[i])], LAMBDA s : ~IsNull(s))

PathRoute(route, totalDistance, path) ==
    RouteValue(route, totalDistance, Len(route) - 1, (Len(route) - 1) * fuelPerJump,
               path, "")

WalkRoute(walk) == PathRoute(ResolvePath(walk.path), walk.totalDistance, walk.path)

reconstructPath(cameFrom, current, gScore) ==
    WalkRoute(WalkBack(cameFrom, current, <<current>>, 0))

\* Where findRoute stands after a piece of its body: it has returned (or thrown)
\* with run, or it goes on to the next test of the loop with the search state st.
EmptySearch ==
    [openSet |-> <<>>, closedSet |-> {}, gScore |-> <<>>, fScore |-> <<>>,
     cameFrom |-> <<>>, iterations |-> 0]
Return(run) == [done |-> TRUE, run |-> run, st |-> EmptySearch]
Continue(st) == [done |-> FALSE, run |-> Run(NullRoute, 0, ""), st |-> st]

\* const neighbors = this.findSystemsInRange(currentSystem, maxJumpRange); for (...)
ExpandNeighbors(st, current, neighbors, endSystem) ==
    IF neighbors.threw THEN Return(Run(Threw, st.iterations, "threw"))
    ELSE Continue(RelaxNeighbors(neighbors.list, current, endSystem, st))

\* A slip: the range argument is not passed on, so findSystemsInRange falls back
\* on this.maxJumpRange.
ExpandDefaultRange(st, current, currentSystem, endSystem, range) ==
    IF IsNull(currentSystem) THEN Continue(st)
    ELSE ExpandNeighbors(st, current, findSystemsInRange(currentSystem, maxJumpRange),
                         endSystem)

\* const currentSystem = this.sceneManager.getSystem(current);
\* if (!currentSystem) continue;
Expand(st, current, currentSystem, endSystem, range) ==
    IF IsNull(currentSystem) THEN Continue(st)
    ELSE ExpandNeighbors(st, current, findSystemsInRange(currentSystem, range),
                         endSystem)

\* if (!current) break; if (current === endSystemName) return reconstructPath(...);
\* openSet.delete(current); closedSet.add(current); ...
SearchStep(st, current, endSystemName, endSystem, range) ==
    IF current = "" THEN Return(Run(NullRoute, st.iterations, "no route"))
    ELSE IF current = endSystemName
    THEN Return(Run(reconstructPath(st.cameFrom, current, st.gScore), st.iterations,
                    "found"))
    ELSE Expand([st EXCEPT !.openSet = SeqDelete(@, current),
                           !.closedSet = @ \cup {current}],
                current, getSystem(current), endSystem, range)

\* A slip: iterations++ is missing.
IterationUncounted(st, endSystemName, endSystem, range) ==
    SearchStep(st, LowestFScore(st.openSet, st.fScore, "", Infinity),
               endSystemName, endSystem, range)

\* One pass through the body of the loop: iterations++, then the vertex of
\* lowest fScore is taken from openSet.
Iteration(st, endSystemName, endSystem, range) ==
    SearchStep([st EXCEPT !.iterations = @ + 1],
               LowestFScore(st.openSet, st.fScore, "", Infinity),
               endSystemName, endSystem, range)

\* while (openSet.size > 0 && iterations < maxIterations)
LoopRuns(st) == Len(st.openSet) > 0 /\ st.iterations < maxIterations

\* console.log(`No route found after ${iterations} iterations`); return null;
Exhausted(st) == Run(NullRoute, st.iterations, "no route")

\* The loop, run to the end of the call.
RECURSIVE SearchLoop(_, _, _, _)
Resume(step, endSystemName, endSystem, range) ==
    IF step.done THEN step.run
    ELSE SearchLoop(step.st, endSystemName, endSystem, range)
SearchLoop(st, endSystemName, endSystem, range) ==
    IF LoopRuns(st)
    THEN Resume(Iteration(st, endSystemName, endSystem, range),
                endSystemName, endSystem, range)
    ELSE Exhausted(st)

\* const openSet = new Set([startSystemName]); ... gScore.set(startSystemName, 0);
\* fScore.set(startSystemName, this.calculateDistance(startSystem, endSystem));
AStar(startSystemName, directDistance) ==
    [openSet |-> <<startSystemName>>,
     closedSet |-> {},
     gScore |-> [n \in {startSystemName} |-> 0],
     fScore |-> [n \in {startSystemName} |-> directDistance],
     cameFrom |-> <<>>,
     iterations |-> 0]

\* A slip: a direct jump exactly at the range is refused.
DirectOrSearchStrict(startSystemName, startSystem, endSystem, directDistance, range) ==
    IF directDistance < range
    THEN Return(Run(RouteValue(<<startSystem, endSystem>>, directDistance, 1,
                               fuelPerJump, <<>>, ""),
                    0, "direct jump"))
    ELSE Continue(AStar(startSystemName, directDistance))

\* const directDistance = ...; if (directDistance <= maxJumpRange) return {...}
DirectOrSearch(startSystemName, startSystem, endSystem, directDistance, range) ==
    IF directDistance <= range
    THEN Return(Run(RouteValue(<<startSystem, endSystem>>, directDistance, 1,
                               fuelPerJump, <<>>, ""),
                    0, "direct jump"))
    ELSE Continue(AStar(startSystemName, directDistance))

\* A slip: the test for a system that was not found is missing, so reading
\* .coords of the missing system throws.
ResolvedUnchecked(startSystemName, startSystem, endSystem, range) ==
    IF IsNull(startSystem) \/ IsNull(endSystem)
    THEN Return(Run(Threw, 0, "threw"))
    ELSE IF ~HasCoords(startSystem) \/ ~HasCoords(endSystem)
    THEN Return(Run(NullRoute, 0, "coordinates not available"))
    ELSE DirectOrSearch(startSystemName, startSystem, endSystem,
                        calculateDistance(startSystem, endSystem), range)

\* if (!startSystem || !endSystem) return null;
\* if (!startSystem.coords || !endSystem.coords) return null;
Resolved(startSystemName, startSystem, endSystem, range) ==
    IF IsNull(startSystem) \/ IsNull(endSystem)
    THEN Return(Run(NullRoute, 0, "system not found"))
    ELSE IF ~HasCoords(startSystem) \/ ~HasCoords(endSystem)
    THEN Return(Run(NullRoute, 0, "coordinates not available"))
    ELSE DirectOrSearch(startSystemName, startSystem, endSystem,
                        calculateDistance(startSystem, endSystem), range)

\* findRoute up to the first test of the loop.
EnterFindRoute(startSystemName, endSystemName, range) ==
    Resolved(startSystemName, getSystem(startSystemName), getSystem(endSystemName),
             range)

findRoute(startSystemName, endSystemName, range) ==
    Resume(EnterFindRoute(startSystemName, endSystemName, range),
           endSystemName, getSystem(endSystemName), range)

\* What findOptimizedRoute has done so far: bestRoute (or Threw), bestDistance,
\* and the number of findRoute calls it has made.
OptRun(value, bestDistance, findRouteCalls) ==
    [value |-> value, bestDistance |-> bestDistance, findRouteCalls |-> findRouteCalls]

\* A slip: the anchor is not dropped from the head of the second leg.
CombineWhole(routeToAnchor, routeFromAnchor, anchorName, best) ==
    IF routeFromAnchor.kind = "throw" THEN OptRun(Threw, 0, best.findRouteCalls + 2)
    ELSE IF /\ routeToAnchor.kind = "route"
            /\ routeFromAnchor.kind = "route"
            /\ Plus(routeToAnchor.totalDistance, routeFromAnchor.totalDistance)
                 < best.bestDistance
    THEN OptRun(RouteValue(routeToAnchor.route \o routeFromAnchor.route,
                           Plus(routeToAnchor.totalDistance, routeFromAnchor.totalDistance),
                           routeToAnchor.jumps + routeFromAnchor.jumps,
                           (routeToAnchor.jumps + routeFromAnchor.jumps) * fuelPerJump,
                           <<>>, anchorName),
                Plus(routeToAnchor.totalDistance, routeFromAnchor.totalDistance),
                best.findRouteCalls + 2)
    ELSE OptRun(best.value, best.bestDistance, best.findRouteCalls + 2)

\* A slip: the candidate is not compared with the best so far.
CombineLatest(routeToAnchor, routeFromAnchor, anchorName, best) ==
    IF routeFromAnchor.kind = "throw" THEN OptRun(Threw, 0, best.findRouteCalls + 2)
    ELSE IF routeToAnchor.kind = "route" /\ routeFromAnchor.kind = "route"
    THEN OptRun(RouteValue(routeToAnchor.route \o Tail(routeFromAnchor.route),
                           Plus(routeToAnchor.totalDistance, routeFromAnchor.totalDistance),
                           routeToAnchor.jumps + routeFromAnchor.jumps,
                           (routeToAnchor.jumps + routeFromAnchor.jumps) * fuelPerJump,
                           <<>>, anchorName),
                Plus(routeToAnchor.totalDistance, routeFromAnchor.totalDistance),
                best.findRouteCalls + 2)
    ELSE OptRun(best.value, best.bestDistance, best.findRouteCalls + 2)

\* A slip: the two legs are joined in the wrong order.
CombineReversed(routeToAnchor, routeFromAnchor, anchorName, best) ==
    IF routeFromAnchor.kind = "throw" THEN OptRun(Threw, 0, best.findRouteCalls + 2)
    ELSE IF /\ routeToAnchor.kind = "route"
            /\ routeFromAnchor.kind = "route"
            /\ Plus(routeToAnchor.totalDistance, routeFromAnchor.totalDistance)
                 < best.bestDistance
    THEN OptRun(RouteValue(routeFromAnchor.route \o Tail(routeToAnchor.route),
                           Plus(routeToAnchor.totalDistance, routeFromAnchor.totalDistance),
                           routeToAnchor.jumps + routeFromAnchor.jumps,
                           (routeToAnchor.jumps + routeFromAnchor.jumps) * fuelPerJump,
                           <<>>, anchorName),
                Plus(routeToAnchor.totalDistance, routeFromAnchor.totalDistance),
                best.findRouteCalls + 2)
    ELSE OptRun(best.value, best.bestDistance, best.findRouteCalls + 2)

\* A slip: a candidate that is not longer than the best so far replaces it.
CombineNotLonger(routeToAnchor, routeFromAnchor, anchorName, best) ==
    IF routeFromAnchor.kind = "throw" THEN OptRun(Threw, 0, best.findRouteCalls + 2)
    ELSE IF /\ routeToAnchor.kind = "route"
            /\ routeFromAnchor.kind = "route"
            /\ Plus(routeToAnchor.totalDistance, routeFromAnchor.totalDistance)
                 <= best.bestDistance
    THEN OptRun(RouteValue(routeToAnchor.route \o Tail(routeFromAnchor.route),
                           Plus(routeToAnchor.totalDistance, routeFromAnchor.totalDistance),
                           routeToAnchor.jumps + routeFromAnchor.jumps,
                           (routeToAnchor.jumps + routeFromAnchor.jumps) * fuelPerJump,
                           <<>>, anchorName),
                Plus(routeToAnchor.totalDistance, routeFromAnchor.totalDistance),
                best.findRouteCalls + 2)
    ELSE OptRun(best.value, best.bestDistance, best.findRouteCalls + 2)

\* if (routeToAnchor && routeFromAnchor) { ... if (combinedDistance < bestDistance) ... }
Combine(routeToAnchor, routeFromAnchor, anchorName, best) ==
    IF routeFromAnchor.kind = "throw" THEN OptRun(Threw, 0, best.findRouteCalls + 2)
    ELSE IF /\ routeToAnchor.kind = "route"
            /\ routeFromAnchor.kind = "route"
            /\ Plus(routeToAnchor.totalDistance, routeFromAnchor.totalDistance)
                 < best.bestDistance
    THEN OptRun(RouteValue(routeToAnchor.route \o Tail(routeFromAnchor.route),
                           Plus(routeToAnchor.totalDistance, routeFromAnchor.totalDistance),
                           routeToAnchor.jumps + routeFromAnchor.jumps,
                           (routeToAnchor.jumps + routeFromAnchor.jumps) * fuelPerJump,
                           <<>>, anchorName),
                Plus(routeToAnchor.totalDistance, routeFromAnchor.totalDistance),
                best.findRouteCalls + 2)
    ELSE OptRun(best.value, best.bestDistance, best.findRouteCalls + 2)

\* const routeToAnchor = this.findRoute(start, anchorName, range);
\* const routeFromAnchor = this.findRoute(anchorName, end, range);
ViaAnchor(routeToAnchor, anchorName, endSystemName, range, best) ==
    IF routeToAnchor.kind = "throw" THEN OptRun(Threw, 0, best.findRouteCalls + 1)
    ELSE Combine(routeToAnchor, findRoute(anchorName, endSystemName, range).value,
                 anchorName, best)

\* One anchor of the loop; an exception thrown for an earlier anchor ends the call.
TryAnchor(anchorName, startSystemName, endSystemName, range, best) ==
    IF best.value.kind = "throw" THEN best
    ELSE IF anchorName = startSystemName \/ anchorName = endSystemName THEN best
    ELSE ViaAnchor(findRoute(startSystemName, anchorName, range).value, anchorName,
                   endSystemName, range, best)

\* for (const [anchorName, anchorSystem] of this.anchors) { ... }
RECURSIVE TryAnchors(_, _, _, _, _)
TryAnchors(entries, startSystemName, endSystemName, range, best) ==
    IF entries = <<>> THEN best
    ELSE TryAnchors(Tail(entries), startSystemName, endSystemName, range,
                    TryAnchor(Head(entries).k, startSystemName, endSystemName, range,
                              best))

\* A slip: a direct route of exactly 10 jumps is not accepted as it is.
OptimizeBelow(directRoute, startSystemName, endSystemName, range) ==
    IF directRoute.kind = "throw" THEN OptRun(Threw, 0, 1)
    ELSE IF directRoute.kind = "route" /\ directRoute.jumps < DirectJumpThreshold
    THEN OptRun(directRoute, directRoute.totalDistance, 1)
    ELSE IF IsNull(getSystem(startSystemName)) \/ IsNull(getSystem(endSystemName))
    THEN OptRun(directRoute, 0, 1)
    ELSE TryAnchors(anchors, startSystemName, endSystemName, range,
                    OptRun(directRoute,
                           IF directRoute.kind = "route"
                           THEN directRoute.totalDistance ELSE Infinity,
                           1))

\* if (directRoute && directRoute.jumps <= 10) return directRoute;
\* if (!startSystem || !endSystem) return directRoute;
\* let bestRoute = directRoute; let bestDistance = directRoute ? ... : Infinity;
Optimize(directRoute, startSystemName, endSystemName, range) ==
    IF directRoute.kind = "throw" THEN OptRun(Threw, 0, 1)
    ELSE IF directRoute.kind = "route" /\ directRoute.jumps <= DirectJumpThreshold
    THEN OptRun(directRoute, directRoute.totalDistance, 1)
    ELSE IF IsNull(getSystem(startSystemName)) \/ IsNull(getSystem(endSystemName))
    THEN OptRun(directRoute, 0, 1)
    ELSE TryAnchors(anchors, startSystemName, endSystemName, range,
                    OptRun(directRoute,
                           IF directRoute.kind = "route"
                           THEN directRoute.totalDistance ELSE Infinity,
                           1))

findOptimizedRoute(startSystemName, endSystemName, range) ==
    Optimize(findRoute(startSystemName, endSystemName, range).value,
             startSystemName, endSystemName, range)

\* anchorData.forEach(anchor => { const system = getSystem(anchor.name);
\*                                if (system?.coords) this.anchors.set(anchor.name, ...) })
\* The radius and description copied into the entry are not read by the planner.
\* The forEach body without the guard on system?.coords.
StoreAnchorUnguarded(anchorMap, name, system) == MapSet(anchorMap, name, system)

\* The forEach body on a list of entries instead of a Map keyed by name.
StoreAnchorAppended(anchorMap, name, system) ==
    IF ~IsNull(system) /\ HasCoords(system)
    THEN Append(anchorMap, [k |-> name, v |-> system])
    ELSE anchorMap

StoreAnchor(anchorMap, name, system) ==
    IF ~IsNull(system) /\ HasCoords(system) THEN MapSet(anchorMap, name, system)
    ELSE anchorMap

RECURSIVE StoreAnchors(_, _)
StoreAnchors(anchorData, anchorMap) ==
    IF anchorData = <<>> THEN anchorMap
    ELSE StoreAnchors(Tail(anchorData),
                      StoreAnchor(anchorMap, Head(anchorData).name,
                                  getSystem(Head(anchorData).name)))

\* ------------------------------------------------------------------ inputs
\* Coordinates with integer pairwise distances (9, 12, 15, 18).
Origin == <<0, 0, 0>>
Points == {Origin, <<9, 0, 0>>, <<18, 0, 0>>, <<9, 12, 0>>}
CoordChoices == Points \cup {NoCoords}

System(name, coords) == [name |-> name, coords |-> coords]

\* Every catalog of at most MaxSystems systems whose first entry is at the
\* origin; any later entry may lack coordinates.
SmallCatalogs ==
    UNION {{[i \in 1..n |-> System(SystemName(i), IF i = 1 THEN Origin ELSE c[i])] :
              c \in [1..n -> CoordChoices]} : n \in 1..MaxSystems}

\* The four points under every assignment of the names S1..S4.
DiamondCatalogs ==
    {[i \in 1..4 |-> System(SystemName(i), c[i])] :
        c \in {f \in [1..4 -> Points] : \A i, j \in 1..4 : f[i] = f[j] => i = j}}

\* ChainLen systems in a row, 9 light years apart.
ChainCatalog == [i \in 1..ChainLen |-> System(SystemName(i), <<9 * (i - 1), 0, 0>>)]

\* LongChainLen systems in a row, 9 light years apart.
LongChainCatalog ==
    [i \in 1..LongChainLen |-> System(SystemName(i), <<9 * (i - 1), 0, 0>>)]

\* What /api/anchor-systems answers: nothing, the systems after the first in
\* either order, or the same behind a name that is in no catalog.
AnchorNames == [i \in 1..MaxAnchors |-> [name |-> SystemName(i + 1)]]
Reverse(seq) == [i \in 1..Len(seq) |-> seq[Len(seq) + 1 - i]]
AnchorInputs ==
    {<<>>, AnchorNames, Reverse(AnchorNames), <<[name |-> UnknownName]>> \o AnchorNames}

\* Names a caller may pass: the first three and the last stored name, the first
\* and the last stored name in lower case, and a name that is in no catalog.
QueryNames(catalog) ==
    {catalog[i].name : i \in (1..Len(catalog)) \cap {1, 2, 3, Len(catalog)}}
        \cup {UnknownName}
        \cup {toLowerCase(catalog[i].name) : i \in {1, Len(catalog)}}

JumpRanges == {9, 15, DefaultJumpRange}

\* The calls a caller may make on a catalog.
Requests(catalog) ==
    [start : QueryNames(catalog), end : QueryNames(catalog), range : JumpRanges]

\* ------------------------------------------------------------ specification
NoSearch == [pc |-> "idle", st |-> EmptySearch]
NoCall ==
    [op |-> "none", value |-> NullRoute, iterations |-> 0, log |-> "",
     findRouteCalls |-> 0]

\* RoutePlannerUI after its constructor: this.currentRoute = null; no
\* calculateRoute call is waiting for its timer.
NoUI == [currentRoute |-> NullRoute, waiting |-> <<>>]

\* The state OASISCommunityMap.init leaves: the scene has loaded the catalog and
\* RoutePlannerUI.initialize has run RoutePlanner.loadSystemData on it.
Loaded(catalog, anchorData) ==
    /\ \E loaded \in {loadAllSystems(catalog)} :
          /\ sceneSystems = loaded.allSystems
          /\ systemNameMap = loaded.systemNameMap
    /\ allSystems = sceneSystems
    /\ anchors = StoreAnchors(anchorData, <<>>)
    /\ maxJumpRange = DefaultJumpRange
    /\ currentRoute = NullRoute
    /\ call = NoCall
    /\ search = NoSearch
    /\ ui = NoUI

Init ==
    \E anchorData \in AnchorInputs :
        \/ \E catalog \in SmallCatalogs :
              /\ Loaded(catalog, anchorData)
              /\ request \in Requests(catalog)
        \/ \E catalog \in DiamondCatalogs :
              /\ Loaded(catalog, anchorData)
              /\ request \in Requests(catalog)
        \/ /\ Loaded(ChainCatalog, anchorData)
           /\ request \in Requests(ChainCatalog)

\* The record of a findRoute call.
Called(run) ==
    [op |-> "findRoute", value |-> run.value, iterations |-> run.iterations,
     log |-> run.log, findRouteCalls |-> 1]

\* The record of a findOptimizedRoute call.
CalledOptimized(run) ==
    [op |-> "findOptimizedRoute", value |-> run.value, iterations |-> 0, log |-> "",
     findRouteCalls |-> run.findRouteCalls]

FindRoute ==
    /\ call' = Called(findRoute(request.start, request.end, request.range))
    /\ UNCHANGED <<sceneSystems, systemNameMap, allSystems, anchors, maxJumpRange,
                   currentRoute, request, search, ui>>

\* A slip: findOptimizedRoute keeps the route it found as the active route.
FindOptimizedRouteHeld ==
    /\ call' = CalledOptimized(findOptimizedRoute(request.start, request.end,
                                                  request.range))
    /\ currentRoute' = IF call'.value.kind = "route" THEN call'.value ELSE currentRoute
    /\ UNCHANGED <<sceneSystems, systemNameMap, allSystems, anchors, maxJumpRange,
                   request, search, ui>>

FindOptimizedRoute ==
    /\ call' = CalledOptimized(findOptimizedRoute(request.start, request.end,
                                                  request.range))
    /\ UNCHANGED <<sceneSystems, systemNameMap, allSystems, anchors, maxJumpRange,
                   currentRoute, request, search, ui>>

Next == FindRoute \/ FindOptimizedRoute

Spec == Init /\ [][Next]_vars

\* ------------------------------------------- findRoute, one iteration a step
\* The same call with each pass through the loop of findRoute as a step of its
\* own, on the diamond catalogs and on the long chain.
SearchInit ==
    \/ \E catalog \in DiamondCatalogs :
          /\ Loaded(catalog, <<>>)
          /\ request \in Requests(catalog)
    \/ /\ Loaded(LongChainCatalog, <<>>)
       /\ request \in [start : {SystemName(1)},
                       end : {SystemName(2), SystemName(5), SystemName(LongChainLen),
                              UnknownName},
                       range : {9, 15}]

\* The call has returned or thrown.
Finish(run) ==
    /\ call' = Called(run)
    /\ search' = [pc |-> "done", st |-> EmptySearch]

Advance(step) ==
    IF step.done THEN Finish(step.run)
    ELSE /\ search' = [pc |-> "loop", st |-> step.st]
         /\ UNCHANGED call

BeginFindRoute ==
    /\ search.pc = "idle"
    /\ Advance(EnterFindRoute(request.start, request.end, request.range))
    /\ UNCHANGED <<sceneSystems, systemNameMap, allSystems, anchors, maxJumpRange,
                   currentRoute, request, ui>>

LoopIteration ==
    /\ search.pc = "loop"
    /\ LoopRuns(search.st)
    /\ Advance(Iteration(search.st, request.end, getSystem(request.end),
                         request.range))
    /\ UNCHANGED <<sceneSystems, systemNameMap, allSystems, anchors, maxJumpRange,
                   currentRoute, request, ui>>

LoopExit ==
    /\ search.pc = "loop"
    /\ ~LoopRuns(search.st)
    /\ Finish(Exhausted(search.st))
    /\ UNCHANGED <<sceneSystems, systemNameMap, allSystems, anchors, maxJumpRange,
                   currentRoute, request, ui>>

SearchNext == BeginFindRoute \/ LoopIteration \/ LoopExit

SearchSpec == SearchInit /\ [][SearchNext]_vars

\* ------------------------------------- the active route and the jump range
\* visualizeRoute(routeData): the value of this.currentRoute it leaves. The
\* scene objects it builds are not part of the model.
\* this.clearRouteVisualization(); if (!routeData || !routeData.route ||
\* routeData.route.length < 2) return; ... if (points.length < 2) return; ...
\* this.currentRoute = routeData;
visualizeRoute(routeData) ==
    IF routeData.kind # "route" \/ Len(routeData.route) < 2 THEN NullRoute
    ELSE IF Len(SelectSeq(routeData.route, HasCoords)) < 2 THEN NullRoute
    ELSE routeData

\* clearRouteVisualization(): this.currentRoute = null
clearRouteVisualization == NullRoute

\* const newRoute = this.findOptimizedRoute(startSystem, endSystem, newRange);
\* if (newRoute) { this.visualizeRoute(newRoute); return newRoute; } return null;
\* An exception of findOptimizedRoute leaves updateJumpRange where it was thrown.
Recalculated(newRoute) ==
    IF newRoute.kind = "route"
    THEN [currentRoute |-> visualizeRoute(newRoute), value |-> newRoute]
    ELSE [currentRoute |-> currentRoute, value |-> newRoute]

\* A slip: the route is recomputed from its last system to its first.
updateJumpRangeBack(newRange) ==
    IF currentRoute.kind = "route" /\ Len(currentRoute.route) >= 2
    THEN Recalculated(findOptimizedRoute(currentRoute.route[Len(currentRoute.route)].name,
                                         currentRoute.route[1].name,
                                         newRange).value)
    ELSE [currentRoute |-> currentRoute, value |-> NullRoute]

\* updateJumpRange(newRange), after this.maxJumpRange = newRange:
\* if (this.currentRoute && this.currentRoute.route.length >= 2) { ... } return null;
updateJumpRange(newRange) ==
    IF currentRoute.kind = "route" /\ Len(currentRoute.route) >= 2
    THEN Recalculated(findOptimizedRoute(currentRoute.route[1].name,
                                         currentRoute.route[Len(currentRoute.route)].name,
                                         newRange).value)
    ELSE [currentRoute |-> currentRoute, value |-> NullRoute]

\* The catalogs of RangeSpec: the four points, and three points with a system
\* that has no coordinates.
RangeCatalogs ==
    {<<System(SystemName(1), Origin), System(SystemName(2), <<9, 0, 0>>),
       System(SystemName(3), <<18, 0, 0>>), System(SystemName(4), <<9, 12, 0>>)>>,
     <<System(SystemName(1), Origin), System(SystemName(2), <<9, 12, 0>>),
       System(SystemName(3), NoCoords), System(SystemName(4), <<18, 0, 0>>)>>}

RangeInit ==
    \E catalog \in RangeCatalogs, anchorData \in {<<>>, AnchorNames} :
        /\ Loaded(catalog, anchorData)
        /\ request = [start |-> "", end |-> "", range |-> DefaultJumpRange]

\* The record of a call that is neither findRoute nor findOptimizedRoute.
Returned(op, value) ==
    [op |-> op, value |-> value, iterations |-> 0, log |-> "", findRouteCalls |-> 0]

\* A route computation: findOptimizedRoute on names of the catalog.
ComputeRoute ==
    /\ \E start \in MapKeys(allSystems), end \in MapKeys(allSystems),
          range \in JumpRanges :
          /\ request' = [start |-> start, end |-> end, range |-> range]
          /\ call' = CalledOptimized(findOptimizedRoute(start, end, range))
    /\ UNCHANGED <<sceneSystems, systemNameMap, allSystems, anchors, maxJumpRange,
                   currentRoute, search, ui>>

\* visualizeRoute on the route last computed.
VisualizeRoute ==
    /\ call.op = "findOptimizedRoute"
    /\ call.value.kind # "throw"
    /\ currentRoute' = visualizeRoute(call.value)
    /\ call' = Returned("visualizeRoute", NullRoute)
    /\ UNCHANGED <<sceneSystems, systemNameMap, allSystems, anchors, maxJumpRange,
                   request, search, ui>>

ClearRouteVisualization ==
    /\ currentRoute' = clearRouteVisualization
    /\ call' = Returned("clearRouteVisualization", NullRoute)
    /\ UNCHANGED <<sceneSystems, systemNameMap, allSystems, anchors, maxJumpRange,
                   request, search, ui>>

Updated(newRange, update) ==
    /\ maxJumpRange' = newRange
    /\ currentRoute' = update.currentRoute
    /\ call' = [op |-> "updateJumpRange", value |-> update.value, iterations |-> 0,
                log |-> "", findRouteCalls |-> 0, newRange |-> newRange]

UpdateJumpRange ==
    /\ \E newRange \in JumpRanges : Updated(newRange, updateJumpRange(newRange))
    /\ UNCHANGED <<sceneSystems, systemNameMap, allSystems, anchors, request, search, ui>>

RangeNext ==
    ComputeRoute \/ VisualizeRoute \/ ClearRouteVisualization \/ UpdateJumpRange

RangeSpec == RangeInit /\ [][RangeNext]_vars

\* ------------------------------------------------------ loading the data
\* One pass of the forEach of SceneManager.loadAllSystems on maps that may
\* already hold systems: this.allSystems.set(system.name, system);
\* this.systemNameMap.set(this.normalizeSystemName(system.name), system.name)
StoreSystem(maps, system) ==
    [allSystems |-> MapSet(maps.allSystems, system.name, system),
     systemNameMap |->
        MapSet(maps.systemNameMap, normalizeSystemName(system.name), system.name)]

RECURSIVE StoreSystems(_, _)
StoreSystems(systems, maps) ==
    IF systems = <<>> THEN maps
    ELSE StoreSystems(Tail(systems), StoreSystem(maps, Head(systems)))

\* What fetch('/api/anchor-systems') does: it answers with the anchor list,
\* answers with a status that is not ok, or rejects.
Response(kind, anchorData) == [kind |-> kind, anchorData |-> anchorData]
Responses ==
    {Response("ok", anchorData) : anchorData \in AnchorInputs}
        \cup {Response("not ok", <<>>), Response("rejected", <<>>)}

\* loadSystemData(): this.allSystems = new Map(this.sceneManager.allSystems);
\* const response = await fetch(...); if (response.ok) { anchorData.forEach(...) }
\* return true; } catch (error) { return false; }
\* The fields are what the call leaves in this.allSystems and this.anchors and
\* what it returns.
loadSystemData(response) ==
    [allSystems |-> sceneSystems,
     anchors |-> IF response.kind = "ok"
                 THEN StoreAnchors(response.anchorData, anchors)
                 ELSE anchors,
     returned |-> response.kind # "rejected"]

\* The lists of systems the scene is given to load.
SceneLoads ==
    {<<System(SystemName(1), Origin), System(SystemName(2), <<9, 0, 0>>)>>,
     <<System(SystemName(3), <<18, 0, 0>>)>>,
     <<System(SystemName(2), NoCoords)>>}

\* The state the constructors of SceneManager and RoutePlanner leave.
LoadInit ==
    /\ sceneSystems = <<>>
    /\ systemNameMap = <<>>
    /\ allSystems = <<>>
    /\ anchors = <<>>
    /\ maxJumpRange = DefaultJumpRange
    /\ currentRoute = NullRoute
    /\ request = [start |-> "", end |-> "", range |-> DefaultJumpRange]
    /\ call = NoCall
    /\ search = NoSearch
    /\ ui = NoUI

SceneLoaded(loaded) ==
    /\ sceneSystems' = loaded.allSystems
    /\ systemNameMap' = loaded.systemNameMap

LoadAllSystems ==
    /\ \E systems \in SceneLoads :
          SceneLoaded(StoreSystems(systems, [allSystems |-> sceneSystems,
                                             systemNameMap |-> systemNameMap]))
    /\ call' = Returned("loadAllSystems", NullRoute)
    /\ UNCHANGED <<allSystems, anchors, maxJumpRange, currentRoute, request, search, ui>>

\* clearScene(): this.allSystems.clear(); this.systemNameMap.clear()
ClearScene ==
    /\ sceneSystems' = <<>>
    /\ systemNameMap' = <<>>
    /\ call' = Returned("clearScene", NullRoute)
    /\ UNCHANGED <<allSystems, anchors, maxJumpRange, currentRoute, request, search, ui>>

\* The record of a loadSystemData call: what fetch did and what the call returned.
LoadedData(response, load) ==
    /\ allSystems' = load.allSystems
    /\ anchors' = load.anchors
    /\ call' = [op |-> "loadSystemData", value |-> NullRoute, iterations |-> 0,
                log |-> "", findRouteCalls |-> 0, response |-> response,
                returned |-> load.returned]

LoadSystemData ==
    /\ \E response \in Responses : LoadedData(response, loadSystemData(response))
    /\ UNCHANGED <<sceneSystems, systemNameMap, maxJumpRange, currentRoute, request,
                   search, ui>>

\* A findOptimizedRoute call from the first system to another system.
RouteLoaded ==
    /\ \E end \in {SystemName(2), SystemName(3)}, range \in {9, DefaultJumpRange} :
          /\ request' = [start |-> SystemName(1), end |-> end, range |-> range]
          /\ call' = CalledOptimized(findOptimizedRoute(SystemName(1), end, range))
    /\ UNCHANGED <<sceneSystems, systemNameMap, allSystems, anchors, maxJumpRange,
                   currentRoute, search, ui>>

LoadNext == LoadAllSystems \/ ClearScene \/ LoadSystemData \/ RouteLoaded

LoadSpec == LoadInit /\ [][LoadNext]_vars

\* ------------------------------------------------- queries and exports
\* The catalogs of QuerySpec: the small catalogs, the four points and the chain.
QueryCatalogs == SmallCatalogs \cup DiamondCatalogs \cup {ChainCatalog}

\* The state after loading, before any call.
QueryInit ==
    \E catalog \in QueryCatalogs :
        /\ Loaded(catalog, <<>>)
        /\ request = [start |-> "", end |-> "", range |-> DefaultJumpRange]

\* The record of a findSystemsInRange call: its arguments and what it did.
Scanned(centerSystem, range, scan) ==
    [op |-> "findSystemsInRange", value |-> NullRoute, iterations |-> 0, log |-> "",
     findRouteCalls |-> 0, centerSystem |-> centerSystem, range |-> range,
     threw |-> scan.threw, list |-> scan.list]

\* findSystemsInRange(centerSystem, range) around a system of the catalog that
\* has coordinates.
FindSystemsInRange ==
    /\ \E i \in 1..Len(allSystems), range \in JumpRanges :
          /\ HasCoords(allSystems[i].v)
          /\ call' = Scanned(allSystems[i].v, range,
                             findSystemsInRange(allSystems[i].v, range))
    /\ UNCHANGED <<sceneSystems, systemNameMap, allSystems, anchors, maxJumpRange,
                   currentRoute, request, search, ui>>

\* The record of a calculateDistance call: its arguments and what it did.
Distanced(system1, system2) ==
    [op |-> "calculateDistance", value |-> NullRoute, iterations |-> 0, log |-> "",
     findRouteCalls |-> 0, system1 |-> system1, system2 |-> system2,
     threw |-> DistanceThrows(system1, system2),
     distance |-> IF DistanceThrows(system1, system2) THEN 0
                  ELSE calculateDistance(system1, system2)]

\* calculateDistance(system1, system2) on two systems of the catalog.
CalculateDistance ==
    /\ \E i \in 1..Len(allSystems), j \in 1..Len(allSystems) :
          call' = Distanced(allSystems[i].v, allSystems[j].v)
    /\ UNCHANGED <<sceneSystems, systemNameMap, allSystems, anchors, maxJumpRange,
                   currentRoute, request, search, ui>>

QueryNext == FindSystemsInRange \/ CalculateDistance

QuerySpec == QueryInit /\ [][QueryNext]_vars

\* ------------------------------------------------------------- exports
\* A JSON value that is not an object or an array: null, a string or a number.
JsonNull == [type |-> "null", string |-> "", number |-> 0]
JsonString(string) == [type |-> "string", string |-> string, number |-> 0]
JsonNumber(number) == [type |-> "number", string |-> "", number |-> number]

\* JSON.stringify of a string: in double quotes, with a backslash before each
\* double quote and each backslash.
RECURSIVE Escape(_)
Escape(string) ==
    IF string = "" THEN ""
    ELSE (IF SubSeq(string, 1, 1) \in {"\"", "\\"} THEN "\\" ELSE "")
            \o SubSeq(string, 1, 1) \o Escape(Tail(string))

\* A slip: the string is put between the quotes as it is.
QuoteUnescaped(string) == "\"" \o string \o "\""

Quote(string) == "\"" \o Escape(string) \o "\""

\* JSON.stringify of a value: the text that stands for it in the document.
stringify(value) ==
    CASE value.type = "null" -> "null"
      [] value.type = "string" -> Quote(value.string)
      [] value.type = "number" -> ToString(value.number)

\* JSON.parse of a string literal without its quotes: a backslash gives way to
\* the character after it.
RECURSIVE Unescape(_)
Unescape(text) ==
    IF text = "" THEN ""
    ELSE IF SubSeq(text, 1, 1) = "\\" /\ Len(text) >= 2
         THEN SubSeq(text, 2, 2) \o Unescape(SubSeq(text, 3, Len(text)))
         ELSE SubSeq(text, 1, 1) \o Unescape(Tail(text))

Digits == <<"0", "1", "2", "3", "4", "5", "6", "7", "8", "9">>
DigitValue(c) == (CHOOSE i \in 1..10 : Digits[i] = c) - 1

\* The number a run of decimal digits stands for.
RECURSIVE ParseDigits(_, _)
ParseDigits(text, number) ==
    IF text = "" THEN number
    ELSE ParseDigits(Tail(text), 10 * number + DigitValue(SubSeq(text, 1, 1)))

\* JSON.parse of the text of a value.
parse(text) ==
    IF text = "null" THEN JsonNull
    ELSE IF SubSeq(text, 1, 1) = "\""
         THEN JsonString(Unescape(SubSeq(text, 2, Len(text) - 1)))
    ELSE IF SubSeq(text, 1, 1) = "-" THEN JsonNumber(0 - ParseDigits(Tail(text), 0))
    ELSE JsonNumber(ParseDigits(text, 0))

\* The object exportRoute builds, without its timestamp. A property whose value
\* is undefined is not written by JSON.stringify.
\* startSystem: routeData.route[0]?.name, ..., waypoint: routeData.waypoint || null,
\* systems: routeData.route.map(system => ({ name, coordinates: system.coords }))
routeExport(routeData) ==
    [startSystem |-> JsonString(routeData.route[1].name),
     endSystem |-> JsonString(routeData.route[Len(routeData.route)].name),
     totalDistance |-> JsonNumber(routeData.totalDistance),
     jumps |-> JsonNumber(routeData.jumps),
     fuelRequired |-> JsonNumber(routeData.fuelRequired),
     maxJumpRange |-> JsonNumber(maxJumpRange),
     waypoint |-> IF routeData.waypoint # "" THEN JsonString(routeData.waypoint)
                  ELSE JsonNull,
     systems |-> [i \in 1..Len(routeData.route) |->
                    [name |-> JsonString(routeData.route[i].name),
                     coordinates |-> [j \in 1..3 |->
                                        JsonNumber(routeData.route[i].coords[j])]]]]

\* JSON.stringify(routeExport, null, 2): the document, as the text of each value
\* under the key it is written at.
JSONstringify(object) ==
    [startSystem |-> stringify(object.startSystem),
     endSystem |-> stringify(object.endSystem),
     totalDistance |-> stringify(object.totalDistance),
     jumps |-> stringify(object.jumps),
     fuelRequired |-> stringify(object.fuelRequired),
     maxJumpRange |-> stringify(object.maxJumpRange),
     waypoint |-> stringify(object.waypoint),
     systems |-> [i \in 1..Len(object.systems) |->
                    [name |-> stringify(object.systems[i].name),
                     coordinates |-> [j \in 1..3 |->
                                        stringify(object.systems[i].coordinates[j])]]]]

\* JSON.parse of the document.
JSONparse(document) ==
    [startSystem |-> parse(document.startSystem),
     endSystem |-> parse(document.endSystem),
     totalDistance |-> parse(document.totalDistance),
     jumps |-> parse(document.jumps),
     fuelRequired |-> parse(document.fuelRequired),
     maxJumpRange |-> parse(document.maxJumpRange),
     waypoint |-> parse(document.waypoint),
     systems |-> [i \in 1..Len(document.systems) |->
                    [name |-> parse(document.systems[i].name),
                     coordinates |-> [j \in 1..3 |->
                                        parse(document.systems[i].coordinates[j])]]]]

\* Number.prototype.toFixed(2) of a distance of the model, which is an integer.
toFixed(number) == ToString(number) \o ".00"

\* A slip: the distance is measured from the first system of the route.
distanceFromFirst(systems, index) ==
    IF index > 1 THEN calculateDistance(systems[index], systems[1]) ELSE 0

\* let distanceFromPrevious = 0; if (index > 0) { const prev = systems[index - 1];
\* ... distanceFromPrevious = Math.sqrt(dx * dx + dy * dy + dz * dz); }
distanceFromPrevious(systems, index) ==
    IF index > 1 THEN calculateDistance(systems[index], systems[index - 1]) ELSE 0

\* `"${system.name}",${x},${y},${z},${distanceFromPrevious.toFixed(2)}\n`
Row(system, distance) ==
    "\"" \o system.name \o "\"," \o ToString(system.coords[1]) \o ","
        \o ToString(system.coords[2]) \o "," \o ToString(system.coords[3]) \o ","
        \o toFixed(distance)

Header == "System Name,X,Y,Z,Distance from Previous"

\* The csv text, as the sequence of its lines; each ends with a line feed.
Csv(systems) ==
    <<Header>> \o [index \in 1..Len(systems) |->
                     Row(systems[index], distanceFromPrevious(systems, index))]

\* exportRoute(routeData, format): if (!routeData) return null; ...
\* if (format === 'json') return JSON.stringify(routeExport, null, 2);
\* else if (format === 'csv') { ... return csv; }
exportRoute(routeData, format) ==
    IF routeData.kind # "route"
    THEN [returned |-> "null", json |-> <<>>, csv |-> <<>>]
    ELSE IF format = "json"
    THEN [returned |-> "json", json |-> JSONstringify(routeExport(routeData)),
          csv |-> <<>>]
    ELSE [returned |-> "csv", json |-> <<>>, csv |-> Csv(routeData.route)]

\* The catalogs of ExportSpec: the small catalogs, the chain, and a catalog with
\* a name that holds a backslash and a double quote.
QuotedCatalog ==
    <<System(SystemName(1), Origin), System("S\\\"2", <<9, 0, 0>>),
      System(SystemName(3), <<18, 0, 0>>)>>
ExportCatalogs == SmallCatalogs \cup {ChainCatalog, QuotedCatalog}

\* The anchor list of ExportSpec: the second system of the catalog.
ExportAnchors(catalog) == IF Len(catalog) >= 2 THEN <<[name |-> catalog[2].name]>> ELSE <<>>

ExportInit ==
    \E catalog \in ExportCatalogs :
        /\ Loaded(catalog, ExportAnchors(catalog))
        /\ request \in Requests(catalog)

\* The record of an exportRoute call: value is the route it was given.
Exported(routeData, format, export) ==
    [op |-> "exportRoute", value |-> routeData, iterations |-> 0, log |-> "",
     findRouteCalls |-> 0, format |-> format, returned |-> export.returned,
     json |-> export.json, csv |-> export.csv]

\* exportRoute on what the last findRoute or findOptimizedRoute call returned.
ExportRoute ==
    /\ call.op \in {"findRoute", "findOptimizedRoute"}
    /\ call.value.kind # "throw"
    /\ \E format \in {"json", "csv"} :
          call' = Exported(call.value, format, exportRoute(call.value, format))
    /\ UNCHANGED <<sceneSystems, systemNameMap, allSystems, anchors, maxJumpRange,
                   currentRoute, request, search, ui>>

ExportNext == FindRoute \/ FindOptimizedRoute \/ ExportRoute

ExportSpec == ExportInit /\ [][ExportNext]_vars

\* ------------------------------------------------------ read operations
\* The state after loading one of the catalogs of RangeSpec; the caller will
\* ask for one route.
ReadInit ==
    \E catalog \in RangeCatalogs, anchorData \in {<<>>, AnchorNames} :
        /\ Loaded(catalog, anchorData)
        /\ request \in Requests(catalog)

\* The operations that read the planner's state, and visualizeRoute, which
\* makes the route last computed the active one.
ReadNext ==
    \/ CalculateDistance
    \/ FindSystemsInRange
    \/ FindRoute
    \/ FindOptimizedRoute
    \/ ExportRoute
    \/ VisualizeRoute

ReadSpec == ReadInit /\ [][ReadNext]_vars

\* ------------------------------------------------------ rounded sums
\* Thirteen systems in a row whose spacings add up to more than 2^Mantissa, so
\* that the sums of distances along the row are rounded; only neighbours in
\* the row are within 4000 of each other.
Spacings ==
    <<3303, 3503, 3103, 3103, 3303, 3301, 3505, 3103, 2907, 2901, 2907, 3107>>

RECURSIVE Position(_)
Position(i) == IF i = 1 THEN 0 ELSE Position(i - 1) + Spacings[i - 1]

RoundedChain ==
    [i \in 1..(Len(Spacings) + 1) |-> System(SystemName(i), <<Position(i), 0, 0>>)]

\* The calls made on the row go from one of its first two systems to any of its
\* systems, with a range of 4000.
RoundedInit ==
    \E anchorData \in {<<>>, AnchorNames} :
        \/ /\ Loaded(RoundedChain, anchorData)
           /\ request \in [start : {SystemName(1), SystemName(2)},
                           end : {SystemName(i) : i \in 1..(Len(Spacings) + 1)},
                           range : {4000}]
        \/ /\ Loaded(ChainCatalog, anchorData)
           /\ request \in Requests(ChainCatalog)

RoundedSpec == RoundedInit /\ [][Next]_vars

\* ---------------------------------------------------------- RoutePlannerUI
\* The calculateRoute calls that may wait for their timers at the same time.
MaxWaiting == 2

\* parseInt of a string of decimal digits.
parseInt(value) == ParseDigits(value, 0)

UIInit ==
    \E catalog \in RangeCatalogs, anchorData \in {<<>>, AnchorNames} :
        /\ Loaded(catalog, anchorData)
        /\ request = [start |-> "", end |-> "", range |-> DefaultJumpRange]

\* The record of a step of RoutePlannerUI.calculateRoute.
Calculating(phase, startSystem, endSystem, value) ==
    [op |-> "calculateRoute", value |-> value, iterations |-> 0, log |-> "",
     findRouteCalls |-> 0, phase |-> phase, startSystem |-> startSystem,
     endSystem |-> endSystem]

\* calculateRoute() up to its await: if (!startSystem || !endSystem) { ... return; }
\* if (startSystem === endSystem) { ... return; } ...
\* await new Promise(resolve => setTimeout(resolve, 100));
\* The fields hold, after trim(), nothing or a name of the catalog.
CalculateRoute ==
    /\ \E startSystem \in {"", SystemName(1)},
          endSystem \in {"", SystemName(1), SystemName(3), SystemName(4)} :
          IF startSystem = "" \/ endSystem = "" \/ startSystem = endSystem
          THEN /\ call' = Calculating("rejected", startSystem, endSystem, NullRoute)
               /\ ui' = ui
          ELSE /\ Len(ui.waiting) < MaxWaiting
               /\ call' = Calculating("waiting", startSystem, endSystem, NullRoute)
               /\ ui' = [ui EXCEPT !.waiting =
                            Append(@, [startSystem |-> startSystem,
                                       endSystem |-> endSystem])]
    /\ UNCHANGED <<sceneSystems, systemNameMap, allSystems, anchors, maxJumpRange,
                   currentRoute, request, search>>

\* calculateRoute() after its await, for the call whose timer fires first:
\* const route = this.routePlanner.findOptimizedRoute(startSystem, endSystem);
\* if (route) { this.currentRoute = route; this.routePlanner.visualizeRoute(route); ... }
\* else { this.showError(...) } } catch (error) { ... this.showError(...) }
Resumed(startSystem, endSystem, route) ==
    /\ call' = Calculating("resumed", startSystem, endSystem, route)
    /\ ui' = [currentRoute |-> IF route.kind = "route" THEN route ELSE ui.currentRoute,
              waiting |-> Tail(ui.waiting)]
    /\ currentRoute' = IF route.kind = "route" THEN visualizeRoute(route)
                       ELSE currentRoute

ResumeCalculateRoute ==
    /\ ui.waiting # <<>>
    /\ Resumed(Head(ui.waiting).startSystem, Head(ui.waiting).endSystem,
               findOptimizedRoute(Head(ui.waiting).startSystem,
                                  Head(ui.waiting).endSystem, maxJumpRange).value)
    /\ UNCHANGED <<sceneSystems, systemNameMap, allSystems, anchors, maxJumpRange,
                   request, search>>

\* clearRoute(): this.routePlanner.clearRouteVisualization();
\* this.currentRoute = null; ... the two fields are emptied.
ClearRoute ==
    /\ currentRoute' = clearRouteVisualization
    /\ ui' = [ui EXCEPT !.currentRoute = NullRoute]
    /\ call' = Returned("clearRoute", NullRoute)
    /\ UNCHANGED <<sceneSystems, systemNameMap, allSystems, anchors, maxJumpRange,
                   request, search>>

\* The input handler of the slider:
\* this.routePlanner.updateJumpRange(parseInt(value));
\* with e.target.value one of the strings "9", "15", "50".
SliderInput ==
    /\ \E value \in {"9", "15", "50"} :
          Updated(parseInt(value), updateJumpRange(parseInt(value)))
    /\ UNCHANGED <<sceneSystems, systemNameMap, allSystems, anchors, request, search,
                   ui>>

\* RoutePlannerUI.exportRoute(format): if (!this.currentRoute) { ... return; }
\* const exportData = this.routePlanner.exportRoute(this.currentRoute, format);
UIExportRoute ==
    /\ \E format \in {"json", "csv"} :
          call' = Exported(ui.currentRoute, format, exportRoute(ui.currentRoute, format))
    /\ UNCHANGED <<sceneSystems, systemNameMap, allSystems, anchors, maxJumpRange,
                   currentRoute, request, search, ui>>

UINext ==
    CalculateRoute \/ ResumeCalculateRoute \/ ClearRoute \/ SliderInput \/ UIExportRoute

UISpec == UIInit /\ [][UINext]_vars

\* ------------------------------------------------------------------ claims
\* The graph of the claims: its vertices are the catalog entries that have
\* coordinates, its edges the pairs at distance <= range.
Vertices == {i \in 1..Len(allSystems) : HasCoords(allSystems[i].v)}
Length(i, j) == calculateDistance(allSystems[i].v, allSystems[j].v)
IndexOf(system) == CHOOSE i \in 1..Len(allSystems) : allSystems[i].v = system
Min(S) == CHOOSE x \in S : \A y \in S : x <= y

\* One round of relaxation at vertex v over the distances prev.
Relaxed(prev, range, v) ==
    IF v \notin Vertices THEN Infinity
    ELSE Min({prev[v]} \cup {prev[u] + Length(u, v) :
                               u \in {w \in Vertices : /\ prev[w] < Infinity
                                                       /\ Length(w, v) <= range}})

RECURSIVE RelaxedFrom(_, _, _, _)
RelaxedFrom(prev, range, v, acc) ==
    IF v > Len(allSystems) THEN acc
    ELSE RelaxedFrom(prev, range, v + 1, Append(acc, Relaxed(prev, range, v)))

\* Lengths of the shortest paths that use at most rounds more edges than dist.
RECURSIVE ShortestWithin(_, _, _)
ShortestWithin(dist, range, rounds) ==
    IF rounds = 0 THEN dist
    ELSE ShortestWithin(RelaxedFrom(dist, range, 1, <<>>), range, rounds - 1)

\* Lengths of the shortest paths from catalog entry src; Infinity if there is none.
Shortest(src, range) ==
    ShortestWithin([v \in 1..Len(allSystems) |-> IF v = src THEN 0 ELSE Infinity],
                   range, Len(allSystems))

\* The request resolves to two catalog systems that have coordinates.
RequestResolves ==
    /\ ~IsNull(getSystem(request.start)) /\ HasCoords(getSystem(request.start))
    /\ ~IsNull(getSystem(request.end)) /\ HasCoords(getSystem(request.end))

ShortestRequested ==
    Shortest(IndexOf(getSystem(request.start)), request.range)[IndexOf(getSystem(request.end))]

StartSystem == getSystem(request.start)
EndSystem == getSystem(request.end)
StoredNames == MapKeys(allSystems)
AllHaveCoords == \A i \in 1..Len(allSystems) : HasCoords(allSystems[i].v)

\* Sum of the distances between consecutive systems of a route.
RECURSIVE LengthFrom(_, _)
LengthFrom(route, i) ==
    IF i >= Len(route) THEN 0
    ELSE calculateDistance(route[i], route[i + 1]) + LengthFrom(route, i + 1)

\* C1: whenever findRoute returns a route, its totalDistance is the length of a
\* shortest path from the start system to the end system in the graph whose
\* edges join catalog systems at distance <= maxJumpRange.
C1_Optimal ==
    (call.op = "findRoute" /\ call.value.kind = "route")
        => call.value.totalDistance = ShortestRequested

\* C1 witness: the search returned a two-jump route although another system is
\* in range of both ends and makes a longer path.
C1_Witness ==
    /\ call.op = "findRoute" /\ call.value.kind = "route"
    /\ call.log = "found"
    /\ call.value.jumps = 2
    /\ \E i \in Vertices \ {IndexOf(StartSystem), IndexOf(EndSystem)} :
          /\ Length(IndexOf(StartSystem), i) <= request.range
          /\ Length(i, IndexOf(EndSystem)) <= request.range
          /\ Length(IndexOf(StartSystem), i) + Length(i, IndexOf(EndSystem))
               > call.value.totalDistance

\* C2: for two catalog systems with coordinates at distance <= maxJumpRange,
\* findRoute returns [start, end] with jumps 1, totalDistance the distance and
\* fuelRequired fuelPerJump, and runs no iteration of the search.
C2_FastPath ==
    (/\ call.op = "findRoute"
     /\ RequestResolves
     /\ calculateDistance(StartSystem, EndSystem) <= request.range)
        => /\ call.value.kind = "route"
           /\ call.value.route = <<StartSystem, EndSystem>>
           /\ call.value.jumps = 1
           /\ call.value.totalDistance = calculateDistance(StartSystem, EndSystem)
           /\ call.value.fuelRequired = fuelPerJump
           /\ call.iterations = 0

\* C2 witness: a direct jump between two different systems exactly at the range.
C2_Witness ==
    /\ call.op = "findRoute"
    /\ RequestResolves
    /\ StartSystem # EndSystem
    /\ calculateDistance(StartSystem, EndSystem) = request.range
    /\ call.log = "direct jump"

\* C3: in a catalog whose systems all have coordinates, with start and end
\* named as stored, findRoute returns null exactly when the end system is not
\* reachable from the start system, and a route when it is.
C3_Reachability ==
    (/\ call.op = "findRoute"
     /\ AllHaveCoords
     /\ request.start \in StoredNames
     /\ request.end \in StoredNames)
        => /\ call.value.kind \in {"route", "null"}
           /\ call.value.kind = "null" <=> ShortestRequested = Infinity

\* C3 witness: the search ran, emptied the open set and returned null.
C3_Witness ==
    /\ call.op = "findRoute"
    /\ AllHaveCoords
    /\ request.start \in StoredNames
    /\ request.end \in StoredNames
    /\ call.value.kind = "null"
    /\ call.iterations >= 2

\* C4: a route returned by findRoute or findOptimizedRoute starts at the start
\* system, ends at the end system, and every two consecutive systems of it are
\* at distance <= maxJumpRange.
C4_Valid ==
    call.value.kind = "route"
        => /\ Len(call.value.route) >= 2
           /\ call.value.route[1] = StartSystem
           /\ call.value.route[Len(call.value.route)] = EndSystem
           /\ \A i \in 1..(Len(call.value.route) - 1) :
                 calculateDistance(call.value.route[i], call.value.route[i + 1])
                    <= request.range

\* C4 witness: findOptimizedRoute returned a route relayed through an anchor.
C4_Witness ==
    /\ call.op = "findOptimizedRoute"
    /\ call.value.kind = "route"
    /\ call.value.waypoint # ""
    /\ Len(call.value.route) >= 3

\* The request names a system that is not in the catalog.
Unresolved == IsNull(StartSystem) \/ IsNull(EndSystem)

\* C5 as claimed: findRoute with a name that does not resolve ends in an outcome
\* the caller can tell apart from the not-found value, and runs no search.
C5_Distinct ==
    (call.op = "findRoute" /\ Unresolved)
        => /\ call.value # NullRoute
           /\ call.iterations = 0

\* C5 amended: findRoute with a name that does not resolve returns null, the
\* same value as not-found, after logging that a system was not found, and runs
\* no iteration of the search.
C5_SameNull ==
    (call.op = "findRoute" /\ Unresolved)
        => /\ call.value = NullRoute
           /\ call.log = "system not found"
           /\ call.iterations = 0

\* C5 witness: findRoute was called with a name that is in no catalog.
C5_Witness ==
    /\ call.op = "findRoute"
    /\ Unresolved
    /\ ~IsNull(StartSystem)

\* C6: findRoute and findOptimizedRoute never throw.
C6_NeverThrows == call.value.kind # "throw"

\* The search never runs more than maxIterations iterations, and a call that ran
\* maxIterations of them without taking the end system from the open set
\* returned null.
WithinCap ==
    /\ search.st.iterations <= maxIterations
    /\ call.iterations <= maxIterations
    /\ (/\ call.op = "findRoute"
        /\ call.iterations = maxIterations
        /\ call.log # "found") => call.value = NullRoute

\* A step taken inside the loop ends the call or adds one to iterations.
LoopAdvances ==
    search.pc = "loop"
        => \/ search'.pc = "done"
           \/ /\ search'.pc = "loop"
              /\ search'.st.iterations = search.st.iterations + 1

\* C7: every call of findRoute terminates (each step of the loop ends the call
\* or counts one more iteration, and the count is bounded), its loop expands at
\* most maxIterations vertices, and when the cap is reached without popping the
\* end vertex the result is null.
C7_Bounded == []WithinCap /\ [][LoopAdvances]_vars

\* C7 witness: on the long chain the search ran maxIterations iterations with
\* the open set not empty and the end system reachable, and returned null.
C7_Witness ==
    /\ search.pc = "done"
    /\ call.iterations = maxIterations
    /\ call.value = NullRoute
    /\ request.end = SystemName(LongChainLen)
    /\ request.range >= 9

\* C8: a returned route has jumps = systems - 1, fuelRequired = jumps *
\* fuelPerJump, and totalDistance the sum of the distances between consecutive
\* systems.
C8_Totals ==
    call.value.kind = "route"
        => /\ call.value.jumps = Len(call.value.route) - 1
           /\ call.value.fuelRequired = call.value.jumps * fuelPerJump
           /\ call.value.totalDistance = LengthFrom(call.value.route, 1)

\* C8 witness: a route of more than three jumps found by the search.
C8_Witness ==
    /\ call.value.kind = "route"
    /\ call.value.jumps > 3
    /\ call.value.totalDistance > 0

\* C9: when findRoute returns a route of at most 10 jumps, findOptimizedRoute
\* returns that route, without waypoint, and makes no other findRoute call.
C9_Threshold ==
    (/\ call.op = "findOptimizedRoute"
     /\ findRoute(request.start, request.end, request.range).value.kind = "route"
     /\ findRoute(request.start, request.end, request.range).value.jumps
          <= DirectJumpThreshold)
        => /\ call.value = findRoute(request.start, request.end, request.range).value
           /\ call.value.waypoint = ""
           /\ call.findRouteCalls = 1

\* C9 witness: a direct route of exactly 10 jumps was returned although an anchor
\* other than start and end is loaded.
C9_Witness ==
    /\ call.op = "findOptimizedRoute"
    /\ call.value.kind = "route"
    /\ call.value.jumps = DirectJumpThreshold
    /\ MapKeys(anchors) \ {request.start, request.end} # {}

\* The anchors findOptimizedRoute relays through, and the candidates they give.
RelayAnchors == MapKeys(anchors) \ {request.start, request.end}
Leg(from, to) == findRoute(from, to, request.range).value
Candidates ==
    {Leg(request.start, a).totalDistance + Leg(a, request.end).totalDistance :
        a \in {x \in RelayAnchors : /\ Leg(request.start, x).kind = "route"
                                    /\ Leg(x, request.end).kind = "route"}}
DirectCandidate ==
    IF Leg(request.start, request.end).kind = "route"
    THEN {Leg(request.start, request.end).totalDistance} ELSE {}

\* C10: when the direct route is null or has more than 10 jumps, the route
\* findOptimizedRoute returns has the least totalDistance among the direct
\* route and the anchor candidates, and the call returns null only when there
\* is neither.
C10_Best ==
    (/\ call.op = "findOptimizedRoute"
     /\ call.value.kind # "throw"
     /\ \/ Leg(request.start, request.end).kind = "null"
        \/ Leg(request.start, request.end).jumps > DirectJumpThreshold)
        => IF Candidates \cup DirectCandidate = {}
           THEN call.value = NullRoute
           ELSE /\ call.value.kind = "route"
                /\ call.value.totalDistance = Min(Candidates \cup DirectCandidate)

\* C10 witness: the direct search failed, two anchors gave candidates of
\* different length, and the shorter one was returned.
C10_Witness ==
    /\ call.op = "findOptimizedRoute"
    /\ call.value.kind = "route"
    /\ DirectCandidate = {}
    /\ Cardinality(Candidates) >= 2

\* The systems of a route, as a set.
RouteSystems(route) == {route[i] : i \in 1..Len(route)}

\* C11: a route returned by findOptimizedRoute carries a waypoint exactly when
\* it is an anchor-relayed candidate (not the value of the direct findRoute
\* call); the waypoint is then the name of an anchor, names a system other than
\* the start and the end system, and that system is on the returned route.
C11_Waypoint ==
    (call.op = "findOptimizedRoute" /\ call.value.kind = "route")
        => /\ call.value.waypoint # "" <=> call.value # Leg(request.start, request.end)
           /\ call.value.waypoint # ""
                => /\ call.value.waypoint \in MapKeys(anchors)
                   /\ getSystem(call.value.waypoint) \notin {StartSystem, EndSystem}
                   /\ getSystem(call.value.waypoint) \in RouteSystems(call.value.route)

\* C11 read on names only: the waypoint is not the string passed as start or end.
C11_WaypointByName ==
    (call.op = "findOptimizedRoute" /\ call.value.kind = "route")
        => /\ call.value.waypoint # "" <=> call.value # Leg(request.start, request.end)
           /\ call.value.waypoint # ""
                => /\ call.value.waypoint \in MapKeys(anchors)
                   /\ call.value.waypoint \notin {request.start, request.end}
                   /\ getSystem(call.value.waypoint) \in RouteSystems(call.value.route)

\* The anchors whose two legs both succeed and together take fewer jumps and
\* less distance than the direct route.
BetterAnchors ==
    {a \in RelayAnchors :
        /\ Leg(request.start, a).kind = "route"
        /\ Leg(a, request.end).kind = "route"
        /\ Leg(request.start, a).jumps + Leg(a, request.end).jumps
             < Leg(request.start, request.end).jumps
        /\ Leg(request.start, a).totalDistance + Leg(a, request.end).totalDistance
             < Leg(request.start, request.end).totalDistance}

\* The case of C12: the direct route has more than 10 jumps and an anchor
\* gives fewer combined jumps and less total distance.
C12_Case ==
    /\ call.op = "findOptimizedRoute"
    /\ Leg(request.start, request.end).kind = "route"
    /\ Leg(request.start, request.end).jumps > DirectJumpThreshold
    /\ BetterAnchors # {}

\* C12: in that case findOptimizedRoute returns the anchor-routed candidate,
\* with waypoint the name of the anchor.
C12_Improvement ==
    C12_Case => /\ call.value.kind = "route"
                /\ call.value.waypoint \in BetterAnchors

\* The case of C12 does not occur: a direct route that was found is a shortest
\* one, so no pair of legs is shorter.
C12_NoCase == ~C12_Case

\* A direct route of more than 10 jumps was returned after the anchors had been
\* tried.
C12_Tried ==
    /\ call.op = "findOptimizedRoute"
    /\ call.value.kind = "route"
    /\ call.value.jumps > DirectJumpThreshold
    /\ call.findRouteCalls > 1

\* C13 as claimed: whenever updateJumpRange(r) has returned, the active route, if
\* there is one, has every hop of length <= r.
C13_ActiveWithinRange ==
    (/\ call.op = "updateJumpRange"
     /\ call.value.kind # "throw"
     /\ currentRoute.kind = "route")
        => \A i \in 1..(Len(currentRoute.route) - 1) :
              calculateDistance(currentRoute.route[i], currentRoute.route[i + 1])
                 <= maxJumpRange

\* A name that resolves to a system of the scene's catalog with coordinates.
Resolves(name) == ~IsNull(getSystem(name)) /\ HasCoords(getSystem(name))
DescriptorNames(anchorData) == {anchorData[i].name : i \in 1..Len(anchorData)}
LoadReturned == call.op = "loadSystemData" /\ call.returned

\* C14 as claimed: after every successful loadSystemData the planner's catalog
\* equals the catalog supplied and its anchor set is exactly the anchors of the
\* supplied list that resolve in it, each holding the system it resolves to.
C14_Wholesale ==
    LoadReturned
        => /\ allSystems = sceneSystems
           /\ MapKeys(anchors)
                 = {name \in DescriptorNames(call.response.anchorData) : Resolves(name)}
           /\ \A name \in MapKeys(anchors) : MapGet(anchors, name) = getSystem(name)

\* The part of C14 about the catalog alone.
C14_CatalogReplaced == LoadReturned => allSystems = sceneSystems

\* C15 as claimed: a loadSystemData call whose anchor source throws leaves the
\* planner's catalog as it was before the call.
LoadFailed == call'.op = "loadSystemData" /\ call'.response.kind = "rejected"
C15_FailureKeeps == [][LoadFailed => allSystems' = allSystems]_vars

\* The part of C15 about not throwing: the call returns false.
C15_ReturnsFalse ==
    (call.op = "loadSystemData" /\ call.response.kind = "rejected") => ~call.returned

\* C16: in a load whose anchor list was received, a descriptor that does not
\* resolve to a system with coordinates is not added to the anchor set, the
\* load returns true, and every descriptor that resolves is in the anchor set
\* with the system it resolves to; a later findOptimizedRoute relays only
\* through names of the anchor set and, with no anchors, returns what findRoute
\* returns.
LoadSkips ==
    (call'.op = "loadSystemData" /\ call'.response.kind = "ok")
        => /\ call'.returned
           /\ \A name \in DescriptorNames(call'.response.anchorData) :
                 IF Resolves(name)
                 THEN /\ MapHas(anchors', name)
                      /\ MapGet(anchors', name) = getSystem(name)
                 ELSE MapHas(anchors', name) <=> MapHas(anchors, name)
RoutesWithRemaining ==
    call.op = "findOptimizedRoute"
        => /\ (call.value.kind = "route" /\ call.value.waypoint # "")
                 => /\ call.value.waypoint \in MapKeys(anchors)
                    /\ HasCoords(MapGet(anchors, call.value.waypoint))
           /\ anchors = <<>> => call.value = Leg(request.start, request.end)
C16_Skipped == [][LoadSkips]_vars /\ []RoutesWithRemaining

\* C16 witness: a load received a list with a descriptor that does not resolve
\* before two that do; the two were added and the first was not.
C16_Witness ==
    /\ LoadReturned
    /\ \E name \in DescriptorNames(call.response.anchorData) :
          ~Resolves(name) /\ ~MapHas(anchors, name)
    /\ Cardinality({name \in DescriptorNames(call.response.anchorData) :
                       Resolves(name) /\ MapHas(anchors, name)}) >= 2

\* C17: right after a loadSystemData call, calling it again with the same
\* catalog and the same answer of the anchor source leaves the catalog and the
\* anchor set as they are and returns the same value.
C17_Idempotent ==
    call.op = "loadSystemData"
        => loadSystemData(call.response)
              = [allSystems |-> allSystems, anchors |-> anchors,
                 returned |-> call.returned]

\* C17 witness: a load that stored two anchors in a catalog of three systems.
C17_Witness ==
    /\ LoadReturned
    /\ Len(call.response.anchorData) >= 2
    /\ Len(anchors) >= 2
    /\ Len(allSystems) >= 3

\* The systems of the catalog other than center that have coordinates and lie
\* within range of center.
Within(centerSystem, range) ==
    {allSystems[i].v : i \in {j \in 1..Len(allSystems) :
        /\ allSystems[j].v # centerSystem
        /\ HasCoords(allSystems[j].v)
        /\ calculateDistance(centerSystem, allSystems[j].v) <= range}}

ExactNeighbours ==
    /\ {call.list[i].system : i \in 1..Len(call.list)}
          = Within(call.centerSystem, call.range)
    /\ Len(call.list) = Cardinality(Within(call.centerSystem, call.range))
    /\ \A i \in 1..Len(call.list) :
          call.list[i].distance
             = calculateDistance(call.centerSystem, call.list[i].system)
    /\ \A i, j \in 1..Len(call.list) :
          i < j => call.list[i].distance <= call.list[j].distance

\* C18 as claimed: findSystemsInRange(center, range) returns exactly the systems
\* of the catalog other than center within range of it, each once with its
\* distance, in ascending order of distance.
C18_Neighbours == call.op = "findSystemsInRange" => (~call.threw /\ ExactNeighbours)

\* The same for the calls that return.
C18_WhenReturned == (call.op = "findSystemsInRange" /\ ~call.threw) => ExactNeighbours

\* C19: parsing exportRoute(route, 'json') of a route returned by findRoute or
\* findOptimizedRoute gives the route's totalDistance, its jumps and the names
\* of its systems in order, startSystem and endSystem are the first and the
\* last of these names, and waypoint is the route's waypoint, or null if it
\* has none.
C19_JsonRoundTrip ==
    (call.op = "exportRoute" /\ call.format = "json" /\ call.value.kind = "route")
        => /\ call.returned = "json"
           /\ JSONparse(call.json).totalDistance = JsonNumber(call.value.totalDistance)
           /\ JSONparse(call.json).jumps = JsonNumber(call.value.jumps)
           /\ [i \in 1..Len(call.json.systems) |-> JSONparse(call.json).systems[i].name]
                 = [i \in 1..Len(call.value.route) |->
                      JsonString(call.value.route[i].name)]
           /\ JSONparse(call.json).startSystem = JsonString(call.value.route[1].name)
           /\ JSONparse(call.json).endSystem
                 = JsonString(call.value.route[Len(call.value.route)].name)
           /\ JSONparse(call.json).waypoint
                 = IF call.value.waypoint = "" THEN JsonNull
                   ELSE JsonString(call.value.waypoint)

\* C19 witness: the JSON export of a route through a waypoint whose name holds
\* a double quote.
C19_Witness ==
    /\ call.op = "exportRoute"
    /\ call.format = "json"
    /\ call.value.kind = "route"
    /\ call.value.waypoint # ""
    /\ call.json.waypoint # "\"" \o call.value.waypoint \o "\""
    /\ \E i \in 1..Len(call.value.waypoint) : SubSeq(call.value.waypoint, i, i) = "\""

\* C19 witness of the other case: the JSON export of a route of three systems
\* without a waypoint.
C19_NullWaypoint ==
    /\ call.op = "exportRoute"
    /\ call.format = "json"
    /\ call.value.kind = "route"
    /\ call.value.waypoint = ""
    /\ call.json.waypoint = "null"
    /\ Len(call.value.route) >= 3

\* The text after the last comma of a row.
RECURSIVE LastField(_)
LastField(row) ==
    IF row = "" \/ SubSeq(row, Len(row), Len(row)) = "," THEN ""
    ELSE LastField(SubSeq(row, 1, Len(row) - 1))
            \o SubSeq(row, Len(row), Len(row))

\* The number of hundredths a text with two decimals stands for.
Hundredths(text) ==
    ParseDigits(SubSeq(text, 1, Len(text) - 3)
                   \o SubSeq(text, Len(text) - 1, Len(text)), 0)

\* C20: exportRoute(route, 'csv') is the header row followed by one row per
\* system of the route, in route order; the first of these rows ends with the
\* distance 0 and each later one with the distance between its system and the
\* system of the row before.
C20_CsvShape ==
    (call.op = "exportRoute" /\ call.format = "csv" /\ call.value.kind = "route")
        => /\ call.returned = "csv"
           /\ Len(call.csv) = Len(call.value.route) + 1
           /\ call.csv[1] = "System Name,X,Y,Z,Distance from Previous"
           /\ \A i \in 1..Len(call.value.route) :
                 /\ SubSeq(call.csv[i + 1], 1, Len(call.value.route[i].name) + 3)
                       = "\"" \o call.value.route[i].name \o "\","
                 /\ Hundredths(LastField(call.csv[i + 1]))
                       = IF i = 1 THEN 0
                         ELSE 100 * calculateDistance(call.value.route[i - 1],
                                                      call.value.route[i])

\* C20 witness: the csv export of a route of at least three systems whose
\* third system is farther from the first than from the second.
C20_Witness ==
    /\ call.op = "exportRoute"
    /\ call.format = "csv"
    /\ call.value.kind = "route"
    /\ Len(call.value.route) >= 3
    /\ Len(call.csv) >= 4
    /\ calculateDistance(call.value.route[3], call.value.route[1])
          > calculateDistance(call.value.route[3], call.value.route[2])

\* C21: for two systems with coordinates calculateDistance gives the same
\* distance in either order of its arguments, and 0 for a system and itself.
C21_Symmetric ==
    (call.op = "calculateDistance" /\ ~call.threw)
        => /\ call.distance = calculateDistance(call.system2, call.system1)
           /\ call.system1 = call.system2 => call.distance = 0
           /\ calculateDistance(call.system1, call.system1) = 0

\* C21 witness: the distance between two systems that differ in two coordinates.
C21_Witness ==
    /\ call.op = "calculateDistance"
    /\ ~call.threw
    /\ call.system1.coords[1] # call.system2.coords[1]
    /\ call.system1.coords[2] # call.system2.coords[2]
    /\ call.distance > 0

\* C22: a call of calculateDistance, findSystemsInRange, findRoute,
\* findOptimizedRoute or exportRoute leaves the catalog, the anchor set,
\* maxJumpRange and the active route as they were, whatever it returns.
ReadOperations ==
    {"calculateDistance", "findSystemsInRange", "findRoute", "findOptimizedRoute",
     "exportRoute"}
ReadStep == call'.op \in ReadOperations
C22_ReadOnly ==
    [][ReadStep => UNCHANGED <<allSystems, anchors, maxJumpRange, currentRoute>>]_vars

\* C22 witness: findRoute has returned while a route through a waypoint is
\* held as active in a planner with anchors.
C22_Witness ==
    /\ call.op = "findRoute"
    /\ currentRoute.kind = "route"
    /\ currentRoute.waypoint # ""
    /\ anchors # <<>>

\* The anchors for which both legs are routes, and what a candidate built from
\* the two legs of an anchor must look like.
TwoLegAnchors ==
    {a \in RelayAnchors : /\ Leg(request.start, a).kind = "route"
                          /\ Leg(a, request.end).kind = "route"}
JoinedAt(candidate, a) ==
    /\ candidate.kind = "route"
    /\ candidate.waypoint = a
    /\ candidate.route
          = Leg(request.start, a).route
               \o SubSeq(Leg(a, request.end).route, 2, Len(Leg(a, request.end).route))
    /\ candidate.route[Len(Leg(request.start, a).route)].name = a
    /\ candidate.totalDistance
          = Leg(request.start, a).totalDistance + Leg(a, request.end).totalDistance
    /\ candidate.jumps = Leg(request.start, a).jumps + Leg(a, request.end).jumps
    /\ Len(candidate.route) = candidate.jumps + 1

\* C23: the candidate findOptimizedRoute builds for an anchor, and the route
\* with a waypoint it returns, is the route to the anchor followed by the route
\* from the anchor without its first system; the anchor stands at the junction,
\* totalDistance and jumps are the sums over the two legs and the route has
\* jumps + 1 systems.
C23_Candidate ==
    call.op = "findOptimizedRoute"
        => /\ (call.value.kind = "route" /\ call.value.waypoint # "")
                 => /\ call.value.waypoint \in TwoLegAnchors
                    /\ JoinedAt(call.value, call.value.waypoint)
           /\ \A a \in TwoLegAnchors :
                 JoinedAt(Combine(Leg(request.start, a), Leg(a, request.end), a,
                                  OptRun(NullRoute, Infinity, 1)).value, a)

\* C23 witness: findOptimizedRoute tried the anchors and built a candidate
\* from two legs of more than one jump each.
C23_Witness ==
    /\ call.op = "findOptimizedRoute"
    /\ call.findRouteCalls >= 3
    /\ \E a \in TwoLegAnchors : /\ Leg(request.start, a).jumps >= 2
                                /\ Leg(a, request.end).jumps >= 2

\* C23 witness of the returned candidate: a route through a waypoint whose
\* first leg has more than one jump.
C23_Returned ==
    /\ call.op = "findOptimizedRoute"
    /\ call.value.kind = "route"
    /\ call.value.waypoint # ""
    /\ Leg(request.start, call.value.waypoint).jumps >= 2

\* C24: updateJumpRange(r) always sets maxJumpRange to r; with no active route
\* it changes nothing else and there is no active route afterwards; with an
\* active route and a recomputation that returns a route, the route held
\* afterwards is that route and has the first and the last system of the route
\* held before.
UpdateStep == call'.op = "updateJumpRange"
C24_UpdateScope ==
    [][UpdateStep
         => /\ maxJumpRange' = call'.newRange
            /\ UNCHANGED <<sceneSystems, systemNameMap, allSystems, anchors>>
            /\ currentRoute.kind # "route"
                  => (currentRoute' = currentRoute /\ call'.value = NullRoute)
            /\ (currentRoute.kind = "route" /\ call'.value.kind = "route")
                  => /\ currentRoute' = call'.value
                     /\ currentRoute'.route[1] = currentRoute.route[1]
                     /\ currentRoute'.route[Len(currentRoute'.route)]
                           = currentRoute.route[Len(currentRoute.route)]]_vars

\* C24 witness: updateJumpRange has replaced the active route by a route with
\* more jumps, computed at a range other than the one the planner had.
C24_Witness ==
    /\ call.op = "updateJumpRange"
    /\ call.value.kind = "route"
    /\ currentRoute = call.value
    /\ currentRoute.jumps >= 2
    /\ maxJumpRange # DefaultJumpRange

\* C24 witness of the other case: updateJumpRange was called with no active
\* route and changed the range.
C24_NoRoute ==
    /\ call.op = "updateJumpRange"
    /\ currentRoute.kind = "null"
    /\ call.value = NullRoute
    /\ maxJumpRange # DefaultJumpRange

\* The name as it is stored in the catalog, for a name that resolves.
AsStored(name) == IF IsNull(getSystem(name)) THEN name ELSE getSystem(name).name

\* C25 as claimed: findRoute and findOptimizedRoute return for a name given in
\* another letter case what they return for the name as it is stored.
C25_CaseIndependent ==
    /\ call.op = "findRoute"
          => call.value = findRoute(AsStored(request.start), AsStored(request.end),
                                    request.range).value
    /\ call.op = "findOptimizedRoute"
          => call.value = findOptimizedRoute(AsStored(request.start),
                                             AsStored(request.end),
                                             request.range).value

\* The part of C25 about the fast path: a pair within range of each other.
C25_FastPath ==
    (/\ call.op = "findRoute"
     /\ RequestResolves
     /\ calculateDistance(StartSystem, EndSystem) <= request.range)
        => call.value = findRoute(AsStored(request.start), AsStored(request.end),
                                  request.range).value

C27_NoRepeats ==
    (call.op \in {"findRoute", "findOptimizedRoute"} /\ call.value.kind = "route")
        => \A i, j \in 1..Len(call.value.route) :
              call.value.route[i].name = call.value.route[j].name => i = j

\* The same for calls whose start and end resolve to different systems.
C27_DistinctEnds ==
    (/\ call.op \in {"findRoute", "findOptimizedRoute"}
     /\ call.value.kind = "route"
     /\ normalizeSystemName(request.start) # normalizeSystemName(request.end))
        => \A i, j \in 1..Len(call.value.route) :
              call.value.route[i].name = call.value.route[j].name => i = j

\* C28: the route RoutePlannerUI holds for export is the route RoutePlanner
\* holds as active, or both hold none.
C28_SameRoute == ui.currentRoute = currentRoute

\* C29: in every JSON export, each two consecutive systems of the exported list
\* are at a distance of at most the exported maxJumpRange.
C29_ExportWithinRange ==
    (call.op = "exportRoute" /\ call.returned = "json")
        => \A i \in 1..(Len(call.json.systems) - 1) :
              \E system1 \in {[coords |-> [j \in 1..3 |->
                      JSONparse(call.json).systems[i].coordinates[j].number]]},
                 system2 \in {[coords |-> [j \in 1..3 |->
                      JSONparse(call.json).systems[i + 1].coordinates[j].number]]} :
                 calculateDistance(system1, system2)
                    <= JSONparse(call.json).maxJumpRange.number

\* C30: from the state clearRoute leaves, every step that is not a new request
\* for a calculation leaves the UI and the planner without a route.
C30_ClearHolds ==
    [][(/\ call.op = "clearRoute"
        /\ ~(call'.op = "calculateRoute" /\ call'.phase = "waiting"))
          => (ui'.currentRoute = NullRoute /\ currentRoute' = NullRoute)]_vars

====
